---------------------------- MODULE Spec2Model ----------------------------
(***************************************************************************)
(* A model of the OTP bot: the expiring deduplication cache                *)
(* (src/otp_filter.py) and the poll-filter-dispatch cycle                  *)
(* (src/main_with_commands.py), with the event source (src/scraper.py) and *)
(* the Telegram transport as nondeterministic collaborators.               *)
(*                                                                         *)
(* Eight specifications share the variables:                               *)
(*   SpecCache  the OTPFilter object under sequential calls of its public  *)
(*              methods, one call per step;                                *)
(*   SpecCycle  check_and_send_otps run to completion, one cycle per step  *)
(*              (a single trigger at a time);                              *)
(*   SpecSched  the background_monitor threads with /start-monitor and     *)
(*              /stop-monitor, each thread interleaved at its statements   *)
(*              and its cycle run to completion;                           *)
(*   SpecSchedFair  the scheduler's runs under weak fairness of each       *)
(*              monitor thread;                                            *)
(*   SpecStore  the cache and its file across failed writes and restarts   *)
(*              of the process;                                            *)
(*   SpecControl  the routes /status, /test-message and /clear-cache next  *)
(*              to the cycle of /check-otp;                                *)
(*   SpecKey    _generate_key and filter_new_otps on pairs of events;      *)
(*   Spec       the monitor thread and a manual trigger running            *)
(*              check_and_send_otps concurrently, interleaved at the calls *)
(*              of is_duplicate, add_otp, send_telegram_message and at the *)
(*              read and the write of the counter update.                  *)
(* The clock is in minutes.  Within one step every datetime.now() of the   *)
(* handler reads the same instant.                                         *)
(***************************************************************************)
EXTENDS Integers, Sequences, FiniteSets, TLC

VARIABLES
    now,           \* datetime.now(), in minutes
    cache,         \* OTPFilter.cache: key -> entry
    disk,          \* the document in cache_file
    writable,      \* whether open(cache_file, 'w') succeeds
    bot_stats,     \* the bot_stats dictionary
    phase,         \* main(): "boot" before it ran, "up" once the server runs, "exited"
    bot,           \* whether the global bot is set
    scraper,       \* whether the global scraper is set (create_scraper returned one)
    is_logged_in,  \* IVASMSScraper.is_logged_in
    pc,            \* per trigger: where its check_and_send_otps stands
    messages,      \* per trigger: the local `messages`
    idx,           \* per trigger: position of filter_new_otps' loop in otp_list
    new_otps,      \* per trigger: the local `new_otps` / `new_messages`
    loaded,        \* per trigger: the counter value read by the += of line 275
    cycles,        \* per trigger: cycles started (history, bounds the run)
    rec_at,        \* per trigger: when each survivor was recorded (history)
    sent,          \* every call of bot.send_message by a cycle (history)
    monitors,      \* the background_monitor threads created, in order: where each
                   \* stands, and whether a stop came while its loop ran (history)
    recorded,      \* key -> time of the latest add_otp, Never, or Cleared (history)
    last           \* the handler that ran last at the present instant, and what it
                   \* returned (history; forgotten when the clock advances)

vars == <<now, cache, disk, writable, bot_stats, phase, bot, scraper, is_logged_in, pc,
          messages, idx, new_otps, loaded, cycles, rec_at, sent, monitors, recorded,
          last>>

----------------------------------------------------------------------------
(* Bounds of the model *)

MaxTicks == 3        \* clock ticks in a run
TickMinutes == 15    \* minutes per clock tick
MaxBatch == 2        \* longest batch a fetch returns
MaxCycles == 2       \* cycles started in a run of the concurrent specification
MaxMonitors == 2     \* background_monitor threads created in a run
MaxSent == 2         \* total_otps_sent at which the store's runs start no cycle

(* Program constants *)

expire_minutes == 30
Never == -1          \* bot_stats['last_check'] = 'Never'; also "no time"

None == "None"

\* in `recorded`: recorded once, and cleared since
Cleared == Never - 1

----------------------------------------------------------------------------
(* Data *)

Otps == {"111111", "222222"}
Phones == {"+8801"}
Services == {"Facebook"}
Raws == {"a", "b"}

\* One scraped message: the dictionaries built by scraper.py
OtpData == [otp : Otps, phone : Phones, service : Services, raw_message : Raws]

RECURSIVE SeqsUpTo(_, _)
SeqsUpTo(S, n) ==
    IF n = 0 THEN {<<>>}
    ELSE LET shorter == SeqsUpTo(S, n - 1)
         IN  shorter \cup {Append(s, x) : s \in {q \in shorter : Len(q) = n - 1}, x \in S}

Batches == SeqsUpTo(OtpData, MaxBatch)

Triggers == {"monitor", "manual"}

----------------------------------------------------------------------------
(* OTPFilter, src/otp_filter.py *)

\* the service left out of the key
_generate_key_no_service(otp_data) ==
    otp_data.otp \o "_" \o otp_data.phone

_generate_key(otp_data) ==
    otp_data.otp \o "_" \o otp_data.phone \o "_" \o otp_data.service

Keys == {_generate_key(e) : e \in OtpData}

\* the window read as seconds: timedelta(seconds=self.expire_minutes)
_cleanup_expired_seconds(c, t) ==
    LET expired_keys == {k \in DOMAIN c : (t - c[k].timestamp) * 60 > expire_minutes}
    IN  [k \in DOMAIN c \ expired_keys |-> c[k]]

\* the operands of the subtraction swapped: entry_time - current_time
_cleanup_expired_swapped(c, t) ==
    LET expired_keys == {k \in DOMAIN c : c[k].timestamp - t > expire_minutes}
    IN  [k \in DOMAIN c \ expired_keys |-> c[k]]

\* an entry dropped as soon as its age reaches the window
_cleanup_expired_inclusive(c, t) ==
    LET expired_keys == {k \in DOMAIN c : t - c[k].timestamp >= expire_minutes}
    IN  [k \in DOMAIN c \ expired_keys |-> c[k]]

\* self.cache after _cleanup_expired at time t.  Every entry of the model was
\* written by add_otp, so its 'timestamp' is there and parses.
_cleanup_expired(c, t) ==
    LET expired_keys == {k \in DOMAIN c : t - c[k].timestamp > expire_minutes}
    IN  [k \in DOMAIN c \ expired_keys |-> c[k]]

\* is_duplicate: the swept cache and the value returned
is_duplicate(c, otp_data, t) ==
    LET swept == _cleanup_expired(c, t)
    IN  [cache |-> swept, dup |-> _generate_key(otp_data) \in DOMAIN swept]

\* nothing written: the file is left as it was
_save_cache_skipped(c, d, w) == d

\* the file after _save_cache of mapping c: a failed write is only printed
_save_cache(c, d, w) == IF w THEN c ELSE d

\* the assignment of add_otp left out
add_otp_no_write(c, otp_data, t) == c

\* self.cache after add_otp at time t
add_otp(c, otp_data, t) ==
    LET key == _generate_key(otp_data)
    IN  [k \in DOMAIN c \cup {key} |->
            IF k = key
            THEN [timestamp |-> t, otp |-> otp_data.otp,
                  phone |-> otp_data.phone, service |-> otp_data.service]
            ELSE c[k]]

\* filter_new_otps from position i of otp_list, with `acc` what the loop has
\* built so far: [cache, disk, new]
RECURSIVE filter_loop(_, _, _, _, _)
filter_loop(acc, otp_list, i, t, w) ==
    IF i > Len(otp_list) THEN acc
    ELSE LET chk == is_duplicate(acc.cache, otp_list[i], t)
         IN  IF chk.dup
             THEN filter_loop([acc EXCEPT !.cache = chk.cache], otp_list, i + 1, t, w)
             ELSE LET added == add_otp(chk.cache, otp_list[i], t)
                  IN  filter_loop([cache |-> added,
                                   disk |-> _save_cache(added, acc.disk, w),
                                   new |-> Append(acc.new, otp_list[i])],
                                  otp_list, i + 1, t, w)

\* every event checked against the cache as it was before the call, and the
\* survivors recorded after the loop
RECURSIVE record_all(_, _, _, _)
record_all(c, list, i, t) ==
    IF i > Len(list) THEN c ELSE record_all(add_otp(c, list[i], t), list, i + 1, t)

filter_new_otps_record_after(c, d, otp_list, t, w) ==
    LET swept == _cleanup_expired(c, t)
        fresh == SelectSeq(otp_list, LAMBDA e : _generate_key(e) \notin DOMAIN swept)
        added == record_all(swept, fresh, 1, t)
    IN  [cache |-> added,
         disk |-> IF fresh = <<>> THEN d ELSE _save_cache(added, d, w),
         new |-> fresh]

\* the entry of an event found to be a duplicate stamped anew
filter_new_otps_touch(c, d, otp_list, t, w) ==
    LET r == filter_loop([cache |-> c, disk |-> d, new |-> <<>>], otp_list, 1, t, w)
        touched == [k \in DOMAIN r.cache |->
                       IF \E n \in 1..Len(otp_list) : _generate_key(otp_list[n]) = k
                       THEN [r.cache[k] EXCEPT !.timestamp = t]
                       ELSE r.cache[k]]
    IN  [cache |-> touched, disk |-> _save_cache(touched, r.disk, w), new |-> r.new]

filter_new_otps(c, d, otp_list, t, w) ==
    filter_loop([cache |-> c, disk |-> d, new |-> <<>>], otp_list, 1, t, w)

EmptyCache == [k \in {} |-> 0]

\* the assignment of clear_cache left out
clear_cache_keep(c) == c

\* self.cache after clear_cache
clear_cache(c) == EmptyCache

----------------------------------------------------------------------------
(* History records *)

NoMessage == [count |-> 0, entries |-> <<>>]

\* op: the handler; batch: the events it was given or fetched; dup, new: what
\* is_duplicate, filter_new_otps returned; fetch: how fetch_messages ended;
\* sends: calls of bot.send_message; send_ok: whether the send was confirmed;
\* message: the text sent; size: total_cached returned by get_cache_stats;
\* status: the 'status' of the JSON response; fault: whether the handler of
\* lines 280-282 caught an exception; file: how the start of the process
\* found cache_file; raised: whether an exception left the function to its
\* caller; keys: what _generate_key returned for the events of batch
NoCall == [op |-> "none", batch |-> <<>>, dup |-> FALSE, new |-> <<>>,
           fetch |-> "none", sends |-> 0, send_ok |-> FALSE,
           message |-> NoMessage, size |-> 0, status |-> "none", fault |-> FALSE,
           file |-> "none", raised |-> FALSE, keys |-> <<>>]

Size(c) == Cardinality(DOMAIN c)

----------------------------------------------------------------------------
Init ==
    /\ now = 0
    /\ cache = EmptyCache
    /\ disk = EmptyCache
    /\ writable = TRUE
    /\ bot_stats = [start_time |-> 0, total_otps_sent |-> 0, last_check |-> Never,
                    last_error |-> None, is_running |-> FALSE]
    /\ phase = "boot"
    /\ bot = FALSE
    /\ scraper = FALSE
    /\ is_logged_in = FALSE
    /\ pc = [t \in Triggers |-> "idle"]
    /\ messages = [t \in Triggers |-> <<>>]
    /\ idx = [t \in Triggers |-> 1]
    /\ new_otps = [t \in Triggers |-> <<>>]
    /\ loaded = [t \in Triggers |-> 0]
    /\ cycles = [t \in Triggers |-> 0]
    /\ rec_at = [t \in Triggers |-> <<>>]
    /\ sent = <<>>
    /\ monitors = <<>>
    /\ recorded = [k \in Keys |-> Never]
    /\ last = NoCall

cycleVars == <<bot_stats, phase, bot, scraper, is_logged_in>>
threadVars == <<pc, messages, idx, new_otps, loaded, cycles, rec_at, sent>>

\* the clock advances
Tick ==
    /\ now + TickMinutes <= MaxTicks * TickMinutes
    /\ now' = now + TickMinutes
    /\ last' = NoCall
    /\ UNCHANGED <<cache, disk, writable, cycleVars, threadVars, monitors, recorded>>

----------------------------------------------------------------------------
(* SpecCache: the public methods of OTPFilter, called one at a time *)

IsDuplicateCall(e) ==
    LET r == is_duplicate(cache, e, now)
    IN  /\ cache' = r.cache
        /\ last' = [NoCall EXCEPT !.op = "is_duplicate",
                                  !.batch = <<e>>, !.dup = r.dup]
        /\ UNCHANGED <<now, disk, writable, cycleVars, threadVars, monitors, recorded>>

\* the entry taken back when the write fails
AddOtpCallRollsBack(e) ==
    /\ cache' = IF writable THEN add_otp(cache, e, now) ELSE cache
    /\ disk' = _save_cache(cache', disk, writable)
    /\ recorded' = [recorded EXCEPT ![_generate_key(e)] = now]
    /\ last' = [NoCall EXCEPT !.op = "add_otp", !.batch = <<e>>]
    /\ UNCHANGED <<now, writable, cycleVars, threadVars, monitors>>

AddOtpCall(e) ==
    /\ cache' = add_otp(cache, e, now)
    /\ disk' = _save_cache(cache', disk, writable)
    /\ recorded' = [recorded EXCEPT ![_generate_key(e)] = now]
    /\ last' = [NoCall EXCEPT !.op = "add_otp", !.batch = <<e>>]
    /\ UNCHANGED <<now, writable, cycleVars, threadVars, monitors>>

FilterNewOtpsCall(otp_list) ==
    LET r == filter_new_otps(cache, disk, otp_list, now, writable)
    IN  /\ cache' = r.cache
        /\ disk' = r.disk
        /\ recorded' = [k \in Keys |->
                          IF \E n \in 1..Len(r.new) : _generate_key(r.new[n]) = k
                          THEN now ELSE recorded[k]]
        /\ last' = [NoCall EXCEPT !.op = "filter_new_otps",
                                  !.batch = otp_list, !.new = r.new]
        /\ UNCHANGED <<now, writable, cycleVars, threadVars, monitors>>

GetCacheStatsCall ==
    /\ cache' = _cleanup_expired(cache, now)
    /\ last' = [NoCall EXCEPT !.op = "get_cache_stats",
                              !.size = Size(cache')]
    /\ UNCHANGED <<now, disk, writable, cycleVars, threadVars, monitors, recorded>>

ClearCacheCall ==
    /\ cache' = clear_cache(cache)
    /\ disk' = _save_cache(cache', disk, writable)
    /\ recorded' = [k \in Keys |-> IF recorded[k] = Never THEN Never ELSE Cleared]
    /\ last' = [NoCall EXCEPT !.op = "clear_cache"]
    /\ UNCHANGED <<now, writable, cycleVars, threadVars, monitors>>

CacheNext ==
    \/ Tick
    \/ \E e \in OtpData : IsDuplicateCall(e)
    \/ \E e \in OtpData : AddOtpCall(e)
    \/ \E otp_list \in Batches : FilterNewOtpsCall(otp_list)
    \/ GetCacheStatsCall
    \/ ClearCacheCall

SpecCache == Init /\ [][CacheNext]_vars

----------------------------------------------------------------------------
(* The cache's contract, under SpecCache *)

KeysOf(list) == {_generate_key(list[j]) : j \in 1..Len(list)}

\* the first event of each fingerprint, in the order of the list
FirstOccurrences(list) ==
    LET first(j) == \A m \in 1..(j - 1) : _generate_key(list[m]) # _generate_key(list[j])
        RECURSIVE from(_)
        from(j) == IF j > Len(list) THEN <<>>
                   ELSE IF first(j) THEN <<list[j]>> \o from(j + 1)
                   ELSE from(j + 1)
    IN  from(1)

Age(k) == now - recorded[k]

\* C3: a filter_new_otps call on a batch none of whose fingerprints is in the
\* cache returns the first event of each distinct fingerprint of the batch, and
\* nothing else, in the order of the batch.
C3_FirstOfEachFingerprint ==
    [][(last'.op = "filter_new_otps" /\ KeysOf(last'.batch) \cap DOMAIN cache = {})
          => last'.new = FirstOccurrences(last'.batch)]_vars

\* two events of one fingerprint in one batch on a cache without it: the first
\* alone came back
C3_Witness ==
    /\ last.op = "filter_new_otps"
    /\ now = 0
    /\ Len(last.batch) = 2
    /\ last.batch[1] # last.batch[2]
    /\ _generate_key(last.batch[1]) = _generate_key(last.batch[2])
    /\ last.new = <<last.batch[1]>>

\* C4: an event recorded less than the window ago, with no clear since, is a
\* duplicate: is_duplicate returns True in every such state, and the call that
\* just ran returned True; on an empty cache is_duplicate returns False.
C4_RecordedWithinWindowIsDuplicate ==
    /\ \A e \in OtpData :
          LET k == _generate_key(e)
          IN  /\ (recorded[k] >= 0 /\ Age(k) < expire_minutes)
                    => is_duplicate(cache, e, now).dup
              /\ (last.op = "is_duplicate" /\ last.batch = <<e>>
                    /\ recorded[k] >= 0 /\ Age(k) < expire_minutes) => last.dup
              /\ cache = EmptyCache => ~is_duplicate(cache, e, now).dup
    /\ (last.op = "add_otp") => is_duplicate(cache, last.batch[1], now).dup

\* is_duplicate returned True for an event recorded one tick ago
C4_Witness ==
    /\ last.op = "is_duplicate"
    /\ last.dup
    /\ recorded[_generate_key(last.batch[1])] >= 0
    /\ Age(_generate_key(last.batch[1])) > 0
    /\ Age(_generate_key(last.batch[1])) < expire_minutes

\* C5: an event whose latest record is more than the window old is no
\* duplicate: is_duplicate returns False (in every such state, and in the call
\* that just ran), and filter_new_otps on it returns it as new.
C5_RecordedBeyondWindowIsNew ==
    \A e \in OtpData :
        LET k == _generate_key(e)
        IN  (recorded[k] >= 0 /\ Age(k) > expire_minutes) =>
               /\ ~is_duplicate(cache, e, now).dup
               /\ (last.op = "is_duplicate" /\ last.batch = <<e>>) => ~last.dup
               /\ filter_new_otps(cache, disk, <<e>>, now, writable).new = <<e>>

\* is_duplicate returned False for an event recorded more than the window ago
C5_Witness ==
    /\ last.op = "is_duplicate"
    /\ ~last.dup
    /\ recorded[_generate_key(last.batch[1])] >= 0
    /\ Age(_generate_key(last.batch[1])) > expire_minutes

\* C6: after clear_cache the cache is empty, and an event recorded before the
\* clear and not since is no duplicate, whatever its age.
C6_ClearedIsNotDuplicate ==
    /\ last.op = "clear_cache" => Size(cache) = 0
    /\ \A e \in OtpData :
          LET k == _generate_key(e)
          IN  recorded[k] = Cleared =>
                 /\ k \notin DOMAIN cache
                 /\ ~is_duplicate(cache, e, now).dup
                 /\ (last.op = "is_duplicate" /\ last.batch = <<e>>) => ~last.dup

\* is_duplicate returned False for an event that was recorded and then cleared
C6_Witness ==
    /\ last.op = "is_duplicate"
    /\ ~last.dup
    /\ recorded[_generate_key(last.batch[1])] = Cleared

\* C7: a filter_new_otps call whose sweep removes nothing (no entry of the
\* cache is expired at the call) grows the cache by the number of events it
\* returns.
C7_SizeGrowsByReturned ==
    [][(last'.op = "filter_new_otps" /\ _cleanup_expired(cache, now) = cache)
          => Size(cache') = Size(cache) + Len(last'.new)]_vars

\* the event submitted again within the window: nothing returned, size still 1
C7_Witness ==
    /\ last.op = "filter_new_otps"
    /\ Len(last.batch) = 1
    /\ last.new = <<>>
    /\ Size(cache) = 1
    /\ recorded[_generate_key(last.batch[1])] >= 0
    /\ Age(_generate_key(last.batch[1])) <= expire_minutes

----------------------------------------------------------------------------
(* Rendering, src/utils.py.  A message is modelled by what it lists: the     *)
(* number in its header and, per entry, its number (0: not numbered) and the *)
(* code, service and phone shown.                                            *)

format_otp_message(otp_data) ==
    [count |-> 1,
     entries |-> <<[n |-> 0, otp |-> otp_data.otp, service |-> otp_data.service,
                    phone |-> otp_data.phone]>>]

format_multiple_otps(otp_list) ==
    IF otp_list = <<>> THEN NoMessage
    ELSE IF Len(otp_list) = 1 THEN format_otp_message(otp_list[1])
    ELSE [count |-> Len(otp_list),
          entries |-> [i \in 1..Len(otp_list) |->
                          [n |-> i, otp |-> otp_list[i].otp,
                           service |-> otp_list[i].service,
                           phone |-> otp_list[i].phone]]]

----------------------------------------------------------------------------
(* The event source, src/scraper.py.  login_ok, fetch_ok and page are the    *)
(* site's answers: whether a login succeeds, whether the page requests go    *)
(* through without an exception, and the messages found on the page.         *)

fetch_messages(logged_in, login_ok, fetch_ok, page) ==
    IF ~logged_in /\ ~login_ok
    THEN [messages |-> <<>>, is_logged_in |-> FALSE, how |-> "login_failed"]
    ELSE IF ~fetch_ok
    THEN [messages |-> <<>>, is_logged_in |-> TRUE, how |-> "exception"]
    ELSE [messages |-> page, is_logged_in |-> TRUE, how |-> "ok"]

----------------------------------------------------------------------------
(* The dispatch cycle, src/main_with_commands.py *)

TelegramError == "telegram error"
ConfigError == "configuration error"

\* the assignment of line 238 left out
send_telegram_message_silent(stats, b, ok) ==
    [stats |-> stats, ret |-> b /\ ok, called |-> b]

\* send_telegram_message: b is `bot and GROUP_ID`, ok whether bot.send_message
\* returns; the statistics after it, the value returned, and whether
\* bot.send_message was called
send_telegram_message(stats, b, ok) ==
    IF ~b THEN [stats |-> stats, ret |-> FALSE, called |-> FALSE]
    ELSE IF ok THEN [stats |-> stats, ret |-> TRUE, called |-> TRUE]
    ELSE [stats |-> [stats EXCEPT !.last_error = TelegramError],
          ret |-> FALSE, called |-> TRUE]

\* last_error reset when a send has succeeded
count_sent_clearing(stats, new_messages) ==
    [stats EXCEPT !.total_otps_sent = @ + Len(new_messages), !.last_error = None]

\* line 275
count_sent(stats, new_messages) ==
    [stats EXCEPT !.total_otps_sent = @ + Len(new_messages)]

\* the fetch failure recorded in last_error
after_fetch_recording(stats, f, t) ==
    [stats EXCEPT !.last_check = t,
                  !.last_error = IF f.how = "ok" THEN @ ELSE "fetch error"]

\* last_error reset by a fetch
after_fetch_clearing(stats, f, t) == [stats EXCEPT !.last_check = t, !.last_error = None]

\* line 253, after fetch_messages returned f at time t
after_fetch(stats, f, t) == [stats EXCEPT !.last_check = t]

\* one message per new OTP
dispatch_each(stats, new_messages, b, ok) ==
    LET s == send_telegram_message(stats, b, ok)
    IN  [stats |-> IF s.ret THEN count_sent(s.stats, new_messages) ELSE s.stats,
         message |-> format_otp_message(new_messages[1]),
         sends |-> IF s.called THEN Len(new_messages) ELSE 0,
         send_ok |-> s.ret]

\* the new OTPs counted and nothing sent
dispatch_unsent(stats, new_messages, b, ok) ==
    [stats |-> count_sent(stats, new_messages),
     message |-> format_multiple_otps(new_messages),
     sends |-> 0,
     send_ok |-> TRUE]

\* lines 266-278: render, send once, count on success
dispatch(stats, new_messages, b, ok) ==
    LET message == IF Len(new_messages) = 1
                   THEN format_otp_message(new_messages[1])
                   ELSE format_multiple_otps(new_messages)
        s == send_telegram_message(stats, b, ok)
    IN  [stats |-> IF s.ret THEN count_sent(s.stats, new_messages) ELSE s.stats,
         message |-> message,
         sends |-> IF s.called THEN 1 ELSE 0,
         send_ok |-> s.ret]

\* a thread just created for background_monitor
Monitor(at) == [pc |-> at, stopped |-> FALSE, nap |-> 0]

\* the thread and the server started although initialize_bot returned False
MainStartsAnyway(config_ok, conn_ok, startup_ok) ==
    /\ phase = "boot"
    /\ bot_stats' = IF config_ok
                    THEN send_telegram_message(bot_stats, TRUE, startup_ok).stats
                    ELSE [bot_stats EXCEPT !.last_error = ConfigError]
    /\ bot' = config_ok
    /\ scraper' = (config_ok /\ conn_ok)
    /\ monitors' = <<Monitor("started")>>
    /\ phase' = IF config_ok THEN "up" ELSE "exited"
    /\ last' = [NoCall EXCEPT !.op = "main"]
    /\ UNCHANGED <<now, cache, disk, writable, is_logged_in, threadVars, recorded>>

\* main(): initialize_bot, the startup message, and the server.  config_ok:
\* the four settings are there and the Telegram objects get built; conn_ok:
\* create_scraper reaches the site; startup_ok: the startup message goes out.
\* The monitor thread it starts has yet to run its first statement.
Main(config_ok, conn_ok, startup_ok) ==
    /\ phase = "boot"
    /\ IF ~config_ok
       THEN /\ bot_stats' = [bot_stats EXCEPT !.last_error = ConfigError]
            /\ phase' = "exited"
            /\ UNCHANGED <<bot, scraper, monitors>>
       ELSE /\ bot' = TRUE
            /\ scraper' = conn_ok
            /\ bot_stats' = send_telegram_message(bot_stats, TRUE, startup_ok).stats
            /\ monitors' = <<Monitor("started")>>
            /\ phase' = "up"
    /\ last' = [NoCall EXCEPT !.op = "main"]
    /\ UNCHANGED <<now, cache, disk, writable, is_logged_in, threadVars, recorded>>

\* check_and_send_otps, from its first line to its return
CheckAndSendOtps(login_ok, fetch_ok, page, send_ok) ==
    /\ phase = "up"
    /\ IF ~scraper
       THEN /\ last' = [NoCall EXCEPT !.op = "check_and_send_otps", !.fetch = "no_scraper"]
            /\ UNCHANGED <<cache, disk, recorded, bot_stats, is_logged_in>>
       ELSE LET f == fetch_messages(is_logged_in, login_ok, fetch_ok, page)
                polled == after_fetch(bot_stats, f, now)
                r == filter_new_otps(cache, disk, f.messages, now, writable)
                d == dispatch(polled, r.new, bot, send_ok)
                call == [NoCall EXCEPT !.op = "check_and_send_otps",
                                       !.fetch = f.how, !.batch = f.messages]
            IN  /\ is_logged_in' = f.is_logged_in
                /\ IF f.messages = <<>>
                   THEN /\ bot_stats' = polled
                        /\ last' = call
                        /\ UNCHANGED <<cache, disk, recorded>>
                   ELSE /\ cache' = r.cache
                        /\ disk' = r.disk
                        /\ recorded' = [k \in Keys |->
                                          IF \E n \in 1..Len(r.new) : _generate_key(r.new[n]) = k
                                          THEN now ELSE recorded[k]]
                        /\ IF r.new = <<>>
                           THEN /\ bot_stats' = polled
                                /\ last' = call
                           ELSE /\ bot_stats' = d.stats
                                /\ last' = [call EXCEPT !.new = r.new, !.sends = d.sends,
                                                        !.send_ok = d.send_ok,
                                                        !.message = d.message]
    /\ UNCHANGED <<now, writable, phase, bot, scraper, threadVars>>

\* lines 280-282: an exception raised inside the pass is caught and stored.
\* The one modelled is raised by filter_new_otps before it records anything
\* (its sweep meets an entry that is no mapping, or the dictionary changes
\* under its iteration).
FilterError == "filter error"

\* no handler around the body: the exception goes to the caller
CheckAndSendOtpsFaultRaises(login_ok, fetch_ok, page) ==
    /\ phase = "up"
    /\ scraper
    /\ LET f == fetch_messages(is_logged_in, login_ok, fetch_ok, page)
       IN  /\ f.messages # <<>>
           /\ is_logged_in' = f.is_logged_in
           /\ bot_stats' = after_fetch(bot_stats, f, now)
           /\ last' = [NoCall EXCEPT !.op = "check_and_send_otps", !.fetch = f.how,
                                     !.batch = f.messages, !.fault = TRUE,
                                     !.raised = TRUE]
    /\ UNCHANGED <<now, cache, disk, writable, phase, bot, scraper, threadVars, recorded>>

CheckAndSendOtpsFault(login_ok, fetch_ok, page) ==
    /\ phase = "up"
    /\ scraper
    /\ LET f == fetch_messages(is_logged_in, login_ok, fetch_ok, page)
       IN  /\ f.messages # <<>>
           /\ is_logged_in' = f.is_logged_in
           /\ bot_stats' = [after_fetch(bot_stats, f, now) EXCEPT !.last_error = FilterError]
           /\ last' = [NoCall EXCEPT !.op = "check_and_send_otps", !.fetch = f.how,
                                     !.batch = f.messages, !.fault = TRUE]
    /\ UNCHANGED <<now, cache, disk, writable, phase, bot, scraper, threadVars, recorded>>

----------------------------------------------------------------------------
(* The scheduler: background_monitor threads, /start-monitor, /stop-monitor. *)
(* A thread is "started" until it runs line 288, then at the "test" of line  *)
(* 291, in its "cycle", in its "sleep", or "exited"; `nap` is the length in  *)
(* seconds of the sleep it is in.                                            *)

CheckInterval == 60
ErrorBackoff == 120
MonitorError == "monitor error"

\* the back-off after every pass
after_pass_backoff(stats, escaped) ==
    [stats |-> stats, nap |-> ErrorBackoff]

\* lines 292-301, after check_and_send_otps: the sleep of line 295 when it
\* returned, the handler of lines 297-301 when an exception left it
after_pass(stats, escaped) ==
    IF escaped
    THEN [stats |-> [stats EXCEPT !.last_error = MonitorError], nap |-> ErrorBackoff]
    ELSE [stats |-> stats, nap |-> CheckInterval]

\* a step of background_monitor's own
MonitorStep == [NoCall EXCEPT !.op = "background_monitor"]

\* line 288
MonitorBegin(i) ==
    /\ monitors[i].pc = "started"
    /\ bot_stats' = [bot_stats EXCEPT !.is_running = TRUE]
    /\ monitors' = [monitors EXCEPT ![i].pc = "test"]
    /\ last' = MonitorStep
    /\ UNCHANGED <<now, cache, disk, writable, phase, bot, scraper, is_logged_in,
                   threadVars, recorded>>

\* line 291: while bot_stats['is_running']
MonitorTest(i) ==
    /\ monitors[i].pc = "test"
    /\ monitors' = [monitors EXCEPT
                       ![i].pc = IF bot_stats.is_running THEN "cycle" ELSE "exited"]
    /\ last' = MonitorStep
    /\ UNCHANGED <<now, cache, disk, writable, cycleVars, threadVars, recorded>>

\* line 293, up to the sleep of line 295
MonitorCycle(i, login_ok, fetch_ok, page, send_ok) ==
    /\ monitors[i].pc = "cycle"
    /\ CheckAndSendOtps(login_ok, fetch_ok, page, send_ok)
    /\ monitors' = [monitors EXCEPT ![i].pc = "sleep",
                                    ![i].nap = after_pass(bot_stats', FALSE).nap]

\* the exception leaves check_and_send_otps and background_monitor
MonitorCycleFaultEscapes(i, login_ok, fetch_ok, page) ==
    /\ monitors[i].pc = "cycle"
    /\ CheckAndSendOtpsFault(login_ok, fetch_ok, page)
    /\ monitors' = [monitors EXCEPT ![i].pc = "exited"]

\* line 293 with an exception caught inside check_and_send_otps, which
\* returns as it does without one
MonitorCycleFault(i, login_ok, fetch_ok, page) ==
    /\ monitors[i].pc = "cycle"
    /\ CheckAndSendOtpsFault(login_ok, fetch_ok, page)
    /\ monitors' = [monitors EXCEPT ![i].pc = "sleep",
                                    ![i].nap = after_pass(bot_stats', FALSE).nap]

\* the loop left after one pass
MonitorWakeExits(i) ==
    /\ monitors[i].pc = "sleep"
    /\ monitors' = [monitors EXCEPT ![i].pc = "exited", ![i].nap = 0]
    /\ last' = MonitorStep
    /\ UNCHANGED <<now, cache, disk, writable, cycleVars, threadVars, recorded>>

\* line 295: the sleep is over
MonitorWake(i) ==
    /\ monitors[i].pc = "sleep"
    /\ monitors' = [monitors EXCEPT ![i].pc = "test", ![i].nap = 0]
    /\ last' = MonitorStep
    /\ UNCHANGED <<now, cache, disk, writable, cycleVars, threadVars, recorded>>

\* /start-monitor
StartMonitor ==
    /\ phase = "up"
    /\ bot_stats.is_running \/ Len(monitors) < MaxMonitors
    /\ IF bot_stats.is_running
       THEN /\ last' = [NoCall EXCEPT !.op = "start_monitor", !.status = "info"]
            /\ UNCHANGED monitors
       ELSE /\ last' = [NoCall EXCEPT !.op = "start_monitor", !.status = "success"]
            /\ monitors' = Append(monitors, Monitor("started"))
    /\ UNCHANGED <<now, cache, disk, writable, cycleVars, threadVars, recorded>>

\* /stop-monitor.  `stopped` marks the threads whose loop was running.
StopMonitor ==
    /\ phase = "up"
    /\ bot_stats' = [bot_stats EXCEPT !.is_running = FALSE]
    /\ monitors' = [i \in DOMAIN monitors |->
                       [monitors[i] EXCEPT
                           !.stopped = @ \/ monitors[i].pc \in {"test", "cycle", "sleep"}]]
    /\ last' = [NoCall EXCEPT !.op = "stop_monitor", !.status = "success"]
    /\ UNCHANGED <<now, cache, disk, writable, phase, bot, scraper, is_logged_in,
                   threadVars, recorded>>

\* /check-otp with an exception inside check_and_send_otps
ManualCheckFault(login_ok, fetch_ok, page) ==
    /\ CheckAndSendOtpsFault(login_ok, fetch_ok, page)
    /\ UNCHANGED monitors

\* What a page holds.  The cycle reads a message's otp, phone and service
\* only, so one raw_message per fingerprint is enough here.
Pages == SeqsUpTo({e \in OtpData : e.raw_message = "a"}, MaxBatch)

\* the site's answers that fetch_messages can tell apart
SiteAnswers ==
    {[login_ok |-> FALSE, fetch_ok |-> TRUE, page |-> <<>>],
     [login_ok |-> TRUE, fetch_ok |-> FALSE, page |-> <<>>]}
    \cup {[login_ok |-> TRUE, fetch_ok |-> TRUE, page |-> p] : p \in Pages}

CycleNext ==
    \/ Tick
    \/ \E config_ok, conn_ok, startup_ok \in BOOLEAN : Main(config_ok, conn_ok, startup_ok)
    \/ \E i \in DOMAIN monitors : MonitorBegin(i)
    \/ \E a \in SiteAnswers, send_ok \in BOOLEAN :
          CheckAndSendOtps(a.login_ok, a.fetch_ok, a.page, send_ok) /\ UNCHANGED monitors

SpecCycle == Init /\ [][CycleNext]_vars

\* the site's answers in the scheduler's runs: the page is empty or holds
\* one message, always the same
SchedAnswers ==
    {a \in SiteAnswers : Len(a.page) <= 1 /\ \A n \in 1..Len(a.page) : a.page[n].otp = "111111"}

SchedNext ==
    \/ Tick
    \/ \E config_ok, conn_ok, startup_ok \in BOOLEAN : Main(config_ok, conn_ok, startup_ok)
    \/ StartMonitor
    \/ StopMonitor
    \/ \E i \in DOMAIN monitors : MonitorBegin(i)
    \/ \E i \in DOMAIN monitors : MonitorTest(i)
    \/ \E i \in DOMAIN monitors, a \in SchedAnswers, send_ok \in BOOLEAN :
          MonitorCycle(i, a.login_ok, a.fetch_ok, a.page, send_ok)
    \/ \E i \in DOMAIN monitors, a \in SchedAnswers :
          MonitorCycleFault(i, a.login_ok, a.fetch_ok, a.page)
    \/ \E i \in DOMAIN monitors : MonitorWake(i)
    \/ \E a \in SchedAnswers : ManualCheckFault(a.login_ok, a.fetch_ok, a.page)

SpecSched == Init /\ [][SchedNext]_vars

\* a pass of thread i, line 293
MonitorPass(i) ==
    \/ \E a \in SchedAnswers, send_ok \in BOOLEAN :
          MonitorCycle(i, a.login_ok, a.fetch_ok, a.page, send_ok)
    \/ \E a \in SchedAnswers : MonitorCycleFault(i, a.login_ok, a.fetch_ok, a.page)

\* a step of thread i of background_monitor
MonitorThread(i) ==
    /\ i \in DOMAIN monitors
    /\ \/ MonitorBegin(i)
       \/ MonitorTest(i)
       \/ MonitorPass(i)
       \/ MonitorWake(i)

\* the scheduler's steps at one time of the cache's clock, which the loop
\* does not read
LiveNext ==
    \/ \E config_ok, conn_ok, startup_ok \in BOOLEAN : Main(config_ok, conn_ok, startup_ok)
    \/ StartMonitor
    \/ StopMonitor
    \/ \E i \in DOMAIN monitors : MonitorThread(i)

\* SpecSchedFair: the scheduler's runs in which a thread of
\* background_monitor that can take a step is not kept from it for ever: the
\* interpreter schedules every runnable thread, time.sleep returns, and the
\* requests of a pass return or time out.
SpecSchedFair ==
    Init /\ [][LiveNext]_vars /\ \A i \in 1..MaxMonitors : WF_vars(MonitorThread(i))

----------------------------------------------------------------------------
(* One cycle's effect, under SpecCycle *)

CycleRan == last'.op = "check_and_send_otps"

\* the message lists the survivors, in their order, numbered from 1 when
\* there are several
Covers(message, new) ==
    /\ message.count = Len(new)
    /\ Len(message.entries) = Len(new)
    /\ \A i \in 1..Len(new) :
          /\ message.entries[i].otp = new[i].otp
          /\ message.entries[i].phone = new[i].phone
          /\ message.entries[i].service = new[i].service
          /\ Len(new) > 1 => message.entries[i].n = i

\* C8, as claimed: a cycle whose fetch fails inside the event source (the
\* login fails, or a page request raises) ends with last_error set,
\* total_otps_sent as before and no message sent.
C8_FetchFailureSetsLastError ==
    [][(CycleRan /\ last'.fetch \in {"login_failed", "exception"})
          => /\ bot_stats'.last_error # None
             /\ bot_stats'.total_otps_sent = bot_stats.total_otps_sent
             /\ last'.sends = 0]_vars

\* C8, amended: such a cycle leaves last_error as it was (the failure is
\* printed by the event source and reaches the cycle as an empty list), and
\* total_otps_sent as before, and sends no message.
C8_FetchFailureLeavesLastError ==
    [][(CycleRan /\ last'.fetch \in {"login_failed", "exception"})
          => /\ bot_stats'.last_error = bot_stats.last_error
             /\ bot_stats'.total_otps_sent = bot_stats.total_otps_sent
             /\ last'.sends = 0]_vars

\* a cycle whose fetch raised has run, and last_error is still None
C8_Witness ==
    /\ last.op = "check_and_send_otps"
    /\ last.fetch = "exception"
    /\ bot_stats.last_check = now
    /\ bot_stats.last_error = None

\* C9: a cycle with N >= 1 new OTPs calls bot.send_message once, with one
\* message that lists the N of them, and when that send is confirmed
\* total_otps_sent is N more than before the cycle.
C9_OneSendCountsSurvivors ==
    [][(CycleRan /\ Len(last'.new) >= 1)
          => /\ last'.sends = 1
             /\ Covers(last'.message, last'.new)
             /\ last'.send_ok =>
                   bot_stats'.total_otps_sent = bot_stats.total_otps_sent + Len(last'.new)]_vars

\* a cycle sent two new OTPs in one message after an earlier cycle had sent one
C9_Witness ==
    /\ last.op = "check_and_send_otps"
    /\ Len(last.new) = 2
    /\ last.sends = 1
    /\ last.send_ok
    /\ last.message.count = 2
    /\ bot_stats.total_otps_sent = 3

\* C10: a cycle whose bot.send_message fails ends with last_error holding
\* that failure and total_otps_sent as before the cycle.
C10_SendFailureRecorded ==
    [][(CycleRan /\ last'.sends >= 1 /\ ~last'.send_ok)
          => /\ bot_stats'.last_error = TelegramError
             /\ bot_stats'.total_otps_sent = bot_stats.total_otps_sent]_vars

\* a send failed in a cycle that came after a successful one: the counter
\* kept its value
C10_Witness ==
    /\ last.op = "check_and_send_otps"
    /\ last.sends = 1
    /\ ~last.send_ok
    /\ bot_stats.last_error = TelegramError
    /\ bot_stats.total_otps_sent >= 1

----------------------------------------------------------------------------
(* SpecStore: the cache and its file across failed writes and restarts of    *)
(* the process.  A start of the process runs the module-level statements:    *)
(* otp_filter = OTPFilter(), which loads cache_file, and the initial         *)
(* bot_stats, bot and scraper.                                               *)

\* How a start finds cache_file: "ok", JSON that json.load returns; "missing",
\* no such path; "undecodable", text that is no JSON; "unreadable", open() or
\* the read raises (no permission to read, a directory, bytes that are no
\* UTF-8).
FileConditions == {"ok", "missing", "undecodable", "unreadable"}

\* every exception of the load caught
_load_cache_catch_all(condition, d) ==
    [cache |-> IF condition = "ok" THEN d ELSE EmptyCache, raised |-> FALSE]

\* the file ignored: every start begins with an empty cache
_load_cache_fresh(condition, d) ==
    [cache |-> EmptyCache, raised |-> condition = "unreadable"]

\* _load_cache on a file in `condition` whose document is d: the mapping
\* returned, or an exception raised.  Only JSONDecodeError and
\* FileNotFoundError are caught.
_load_cache(condition, d) ==
    IF condition = "missing" THEN [cache |-> EmptyCache, raised |-> FALSE]
    ELSE IF condition = "ok" THEN [cache |-> d, raised |-> FALSE]
    ELSE IF condition = "undecodable" THEN [cache |-> EmptyCache, raised |-> FALSE]
    ELSE [cache |-> EmptyCache, raised |-> TRUE]

\* The process is started (again).  An exception of the load ends the import
\* with a traceback: phase "crashed".  A missing or undecodable file holds no
\* entries.
Restart(condition) ==
    LET l == _load_cache(condition, disk)
    IN  /\ cache' = l.cache
        /\ phase' = IF l.raised THEN "crashed" ELSE "boot"
        /\ disk' = IF condition \in {"missing", "undecodable"} THEN EmptyCache ELSE disk
        /\ bot_stats' = [start_time |-> now, total_otps_sent |-> 0, last_check |-> Never,
                         last_error |-> None, is_running |-> FALSE]
        /\ bot' = FALSE
        /\ scraper' = FALSE
        /\ is_logged_in' = FALSE
        /\ monitors' = <<>>
        /\ pc' = [t \in Triggers |-> "idle"]
        /\ messages' = [t \in Triggers |-> <<>>]
        /\ idx' = [t \in Triggers |-> 1]
        /\ new_otps' = [t \in Triggers |-> <<>>]
        /\ loaded' = [t \in Triggers |-> 0]
        /\ rec_at' = [t \in Triggers |-> <<>>]
        /\ last' = [NoCall EXCEPT !.op = "import", !.file = condition]
        /\ UNCHANGED <<now, writable, cycles, sent, recorded>>

\* the file system starts or stops accepting open(cache_file, 'w')
SetWritable(w) ==
    /\ writable # w
    /\ writable' = w
    /\ last' = NoCall
    /\ UNCHANGED <<now, cache, disk, cycleVars, threadVars, monitors, recorded>>

\* the event of the store's runs, the one its cycles fetch
StoreData == {e \in OtpData : e.raw_message = "a" /\ e.otp = "111111"}

\* with the import crashed there is no otp_filter to call
Imported == phase # "crashed"

StoreNext ==
    \/ Tick
    \/ \E condition \in FileConditions : Restart(condition)
    \/ \E w \in BOOLEAN : SetWritable(w)
    \/ \E e \in StoreData : Imported /\ IsDuplicateCall(e)
    \/ \E e \in StoreData : Imported /\ AddOtpCall(e)
    \/ Imported /\ ClearCacheCall
    \/ \E config_ok, conn_ok, startup_ok \in BOOLEAN : Main(config_ok, conn_ok, startup_ok)
    \/ \E a \in SchedAnswers, send_ok \in BOOLEAN :
          /\ bot_stats.total_otps_sent < MaxSent
          /\ CheckAndSendOtps(a.login_ok, a.fetch_ok, a.page, send_ok)
          /\ UNCHANGED monitors

SpecStore == Init /\ [][StoreNext]_vars

\* C18, as claimed: the fingerprints that the cycle which just ran put in the
\* cache belong to events delivered by a send that succeeded.
C18_CachedMeansDelivered ==
    last.op = "check_and_send_otps" =>
        \A n \in 1..Len(last.new) :
            _generate_key(last.new[n]) \in DOMAIN cache => last.send_ok

\* C18, amended: a fingerprint enters the cache, or gets a new entry, only in
\* a cycle that found its event new and handed it to bot.send_message in that
\* cycle's one call, whether or not the send succeeded.
C18_CachedMeansHandedOver ==
    [][\A k \in DOMAIN cache' :
          (k \notin DOMAIN cache \/ cache'[k] # cache[k])
             => /\ CycleRan
                /\ k \in KeysOf(last'.new)
                /\ last'.sends = 1
                /\ Covers(last'.message, last'.new)]_vars

\* the cycle that just ran recorded an event and its send failed
C18_Witness ==
    /\ last.op = "check_and_send_otps"
    /\ Len(last.new) = 1
    /\ last.sends = 1
    /\ ~last.send_ok
    /\ _generate_key(last.new[1]) \in DOMAIN cache
    /\ bot_stats.total_otps_sent = 0

\* C19: every run of check_and_send_otps leaves last_check at the time of the
\* run, whatever its outcome.
C19_EveryCycleSetsLastCheck ==
    [][CycleRan => bot_stats'.last_check = now]_vars

\* C20: a cycle whose fetch gives no messages sends nothing, leaves the cache
\* and its file as they were, and changes no field of bot_stats but last_check.
C20_EmptyFetchChangesOnlyLastCheck ==
    [][(CycleRan /\ last'.batch = <<>>)
          => /\ last'.sends = 0
             /\ cache' = cache
             /\ disk' = disk
             /\ \A field \in DOMAIN bot_stats \ {"last_check"} :
                   bot_stats'[field] = bot_stats[field]]_vars

\* an empty page was fetched after a delivery and a failure: the counter, the
\* error and the cache are still there
C20_Witness ==
    /\ last.op = "check_and_send_otps"
    /\ last.fetch = "ok"
    /\ last.batch = <<>>
    /\ bot_stats.last_check = now
    /\ bot_stats.total_otps_sent >= 1
    /\ bot_stats.last_error = TelegramError
    /\ Size(cache) >= 1

----------------------------------------------------------------------------
(* The store's contract, under SpecStore *)

\* C16: a start of the process that finds cache_file missing, undecodable or
\* unreadable leaves the cache empty and the start-up going on.
C16_BadFileLoadsEmpty ==
    [][(last'.op = "import" /\ last'.file \in {"missing", "undecodable", "unreadable"})
          => (cache' = EmptyCache /\ phase' = "boot")]_vars

\* C17: with cache_file not writable, add_otp returns and leaves its event a
\* duplicate, and clear_cache returns and leaves the cache empty; a cycle finds new what it would find new with a writable file, sends them
\* in one message, and leaves each of them a duplicate.
C17_FailedWriteKeepsMemory ==
    [][~writable =>
          /\ last'.op = "add_otp"
                => is_duplicate(cache', last'.batch[1], now).dup
          /\ last'.op = "clear_cache" => cache' = EmptyCache
          /\ (last'.op = "check_and_send_otps" /\ last'.batch # <<>>)
                => /\ last'.new = filter_new_otps(cache, disk, last'.batch, now, TRUE).new
                   /\ last'.new # <<>>
                         => (last'.sends = 1 /\ Covers(last'.message, last'.new))
                   /\ \A n \in 1..Len(last'.new) :
                         is_duplicate(cache', last'.new[n], now).dup]_vars

\* a cycle recorded and sent an event that the file does not hold
C17_Witness ==
    /\ ~writable
    /\ last.op = "check_and_send_otps"
    /\ Len(last.new) = 1
    /\ last.sends = 1
    /\ last.send_ok
    /\ _generate_key(last.new[1]) \in DOMAIN cache
    /\ _generate_key(last.new[1]) \notin DOMAIN disk

----------------------------------------------------------------------------
(* The scheduler's contract, under SpecSched *)

\* the threads that have not left background_monitor
Loops(m) == {i \in DOMAIN m : m[i].pc # "exited"}

\* C11: a /start-monitor that finds is_running set answers 'info', creates no
\* thread and leaves is_running set, and one loop at most goes on calling
\* fetch_messages after it.
C11_StartWhileRunningKeepsOneLoop ==
    [][(last'.op = "start_monitor" /\ bot_stats.is_running)
          => /\ last'.status = "info"
             /\ monitors' = monitors
             /\ bot_stats'.is_running
             /\ Cardinality(Loops(monitors')) <= 1]_vars

\* C12: at most one thread that no stop has reached is inside an iteration of
\* its loop.
C12_AtMostOneLoop ==
    Cardinality({i \in DOMAIN monitors :
                    monitors[i].pc = "cycle" /\ ~monitors[i].stopped}) <= 1

\* C13: a thread whose loop was running when /stop-monitor came does not pass
\* the test of line 291 again: it starts no further iteration.
C13_StoppedLoopStartsNoIteration ==
    [][\A i \in DOMAIN monitors :
          (monitors[i].stopped /\ monitors[i].pc = "test") => monitors'[i].pc # "cycle"]_vars

\* C14: a thread leaves its cycle for its sleep whatever happened in the
\* cycle, an exception caught in it included, with is_running as it was; from
\* the test of line 291 it goes into a next cycle when is_running is set, and
\* it leaves background_monitor only from that test with is_running unset.
C14_FaultStaysInsideLoop ==
    [][\A i \in DOMAIN monitors :
          /\ (monitors[i].pc = "cycle" /\ monitors'[i].pc # "cycle")
                => /\ monitors'[i].pc = "sleep"
                   /\ bot_stats'.is_running = bot_stats.is_running
                   /\ last'.fault => bot_stats'.last_error = FilterError
          /\ (monitors[i].pc = "test" /\ monitors'[i].pc # "test" /\ bot_stats.is_running)
                => monitors'[i].pc = "cycle"
          /\ (monitors[i].pc # "exited" /\ monitors'[i].pc = "exited")
                => (monitors[i].pc = "test" /\ ~bot_stats.is_running)]_vars

\* the only loop, after a cycle that caught an exception and its sleep, is in
\* its next cycle
C14_Witness ==
    /\ Len(monitors) = 1
    /\ monitors[1].pc = "cycle"
    /\ bot_stats.last_error = FilterError
    /\ bot_stats.is_running
    /\ bot_stats.last_check = now

\* C15: once main() has returned for a missing setting, no monitor thread
\* exists, no handler and no cycle has run or runs, is_running is unset, and
\* last_error holds the failure.
C15_MissingSettingStartsNothing ==
    phase = "exited" =>
        /\ monitors = <<>>
        /\ last.op \in {"main", "none"}
        /\ ~bot_stats.is_running
        /\ bot_stats.last_check = Never
        /\ bot_stats.total_otps_sent = 0
        /\ bot_stats.last_error = ConfigError
        /\ cache = EmptyCache
        /\ ~bot /\ ~scraper

\* main() returned for a missing setting, and time has passed since
C15_Witness ==
    /\ phase = "exited"
    /\ now > 0
    /\ bot_stats.last_error = ConfigError

----------------------------------------------------------------------------
(* Spec: check_and_send_otps run by the monitor thread and by a request      *)
(* thread of /check-otp at once.  Neither OTPFilter nor bot_stats is behind  *)
(* a lock, so a thread can be preempted between any two of its steps.        *)

Idle(t) ==
    /\ messages' = [messages EXCEPT ![t] = <<>>]
    /\ idx' = [idx EXCEPT ![t] = 1]
    /\ new_otps' = [new_otps EXCEPT ![t] = <<>>]
    /\ rec_at' = [rec_at EXCEPT ![t] = <<>>]
    /\ loaded' = [loaded EXCEPT ![t] = 0]
    /\ pc' = [pc EXCEPT ![t] = "idle"]

\* where filter_new_otps and its caller go with the loop at position i and
\* `new` collected: on in the loop, or out of it to the send or to the return
\* of line 264
AfterLoop(t, i, new) ==
    IF i <= Len(messages[t]) THEN "check"
    ELSE IF new = <<>> THEN "idle" ELSE "send"

\* lines 246-257: the scraper test, fetch_messages, last_check, the test of
\* `messages`
Fetch(t, login_ok, fetch_ok, page) ==
    /\ phase = "up"
    /\ pc[t] = "idle"
    /\ cycles["monitor"] + cycles["manual"] < MaxCycles
    /\ t = "monitor" => bot_stats.is_running
    /\ cycles' = [cycles EXCEPT ![t] = @ + 1]
    /\ IF ~scraper
       THEN UNCHANGED <<bot_stats, is_logged_in, pc, messages, idx, new_otps,
                        rec_at, loaded>>
       ELSE LET f == fetch_messages(is_logged_in, login_ok, fetch_ok, page)
            IN  /\ is_logged_in' = f.is_logged_in
                /\ bot_stats' = after_fetch(bot_stats, f, now)
                /\ IF f.messages = <<>>
                   THEN UNCHANGED <<pc, messages, idx, new_otps, rec_at, loaded>>
                   ELSE /\ messages' = [messages EXCEPT ![t] = f.messages]
                        /\ pc' = [pc EXCEPT ![t] = "check"]
                        /\ UNCHANGED <<idx, new_otps, rec_at, loaded>>
    /\ UNCHANGED <<now, cache, disk, writable, phase, bot, scraper, sent,
                   recorded, last, monitors>>

\* line 77: is_duplicate on the event at the loop's position
FilterCheck(t) ==
    /\ pc[t] = "check"
    /\ LET chk == is_duplicate(cache, messages[t][idx[t]], now)
       IN  /\ cache' = chk.cache
           /\ IF ~chk.dup
              THEN /\ pc' = [pc EXCEPT ![t] = "add"]
                   /\ UNCHANGED <<messages, idx, new_otps, rec_at, loaded>>
              ELSE IF AfterLoop(t, idx[t] + 1, new_otps[t]) = "idle"
              THEN Idle(t)
              ELSE /\ idx' = [idx EXCEPT ![t] = @ + 1]
                   /\ pc' = [pc EXCEPT ![t] = AfterLoop(t, idx[t] + 1, new_otps[t])]
                   /\ UNCHANGED <<messages, new_otps, rec_at, loaded>>
    /\ UNCHANGED <<now, disk, writable, cycleVars, cycles, sent, recorded, last, monitors>>

\* lines 78-79: new_otps.append and add_otp for the event found new
FilterAdd(t) ==
    /\ pc[t] = "add"
    /\ LET e == messages[t][idx[t]]
       IN  /\ cache' = add_otp(cache, e, now)
           /\ disk' = _save_cache(cache', disk, writable)
           /\ recorded' = [recorded EXCEPT ![_generate_key(e)] = now]
           /\ new_otps' = [new_otps EXCEPT ![t] = Append(@, e)]
           /\ rec_at' = [rec_at EXCEPT ![t] = Append(@, now)]
           /\ idx' = [idx EXCEPT ![t] = @ + 1]
           /\ pc' = [pc EXCEPT ![t] = AfterLoop(t, idx[t] + 1, new_otps'[t])]
    /\ UNCHANGED <<now, writable, cycleVars, messages, loaded, cycles, sent, last, monitors>>

\* lines 269-274 and 277-278: render and send_telegram_message
Send(t, ok) ==
    /\ pc[t] = "send"
    /\ LET s == send_telegram_message(bot_stats, bot, ok)
       IN  /\ bot_stats' = s.stats
           /\ sent' = IF s.called
                      THEN Append(sent, [by |-> t, new |-> new_otps[t],
                                         at |-> rec_at[t], ok |-> s.ret])
                      ELSE sent
           /\ IF s.ret
              THEN /\ pc' = [pc EXCEPT ![t] = "load"]
                   /\ UNCHANGED <<messages, idx, new_otps, rec_at, loaded>>
              ELSE Idle(t)
    /\ UNCHANGED <<now, cache, disk, writable, phase, bot, scraper, is_logged_in,
                   cycles, recorded, last, monitors>>

\* line 275, the read of bot_stats['total_otps_sent']
CountLoad(t) ==
    /\ pc[t] = "load"
    /\ loaded' = [loaded EXCEPT ![t] = bot_stats.total_otps_sent]
    /\ pc' = [pc EXCEPT ![t] = "store"]
    /\ UNCHANGED <<now, cache, disk, writable, cycleVars, messages, idx, new_otps,
                   cycles, rec_at, sent, recorded, last, monitors>>

\* line 275, the write of the sum
CountStore(t) ==
    /\ pc[t] = "store"
    /\ bot_stats' = [bot_stats EXCEPT !.total_otps_sent = loaded[t] + Len(new_otps[t])]
    /\ Idle(t)
    /\ UNCHANGED <<now, cache, disk, writable, phase, bot, scraper, is_logged_in,
                   cycles, sent, recorded, last, monitors>>

Next ==
    \/ Tick
    \/ \E config_ok, conn_ok, startup_ok \in BOOLEAN : Main(config_ok, conn_ok, startup_ok)
    \/ \E i \in DOMAIN monitors : MonitorBegin(i)
    \/ \E t \in Triggers, a \in SiteAnswers : Fetch(t, a.login_ok, a.fetch_ok, a.page)
    \/ \E t \in Triggers : FilterCheck(t)
    \/ \E t \in Triggers : FilterAdd(t)
    \/ \E t \in Triggers, ok \in BOOLEAN : Send(t, ok)
    \/ \E t \in Triggers : CountLoad(t)
    \/ \E t \in Triggers : CountStore(t)

Spec == Init /\ [][Next]_vars

----------------------------------------------------------------------------
(* Concurrent cycles, under Spec *)

\* when cycle t recorded fingerprint k as new, or Never
RecordedBy(new, at, k) ==
    IF \E n \in 1..Len(new) : _generate_key(new[n]) = k
    THEN at[CHOOSE n \in 1..Len(new) : _generate_key(new[n]) = k]
    ELSE Never

Apart(t1, t2) == t1 - t2 > expire_minutes \/ t2 - t1 > expire_minutes

\* C1: of two cycles in flight at once, at most one has a given fingerprint
\* among the events filter_new_otps found new for it, unless the entry the
\* one recorded had expired when the other recorded its own.
C1_OneCycleFindsItNew ==
    \A k \in Keys :
        LET a == RecordedBy(new_otps["monitor"], rec_at["monitor"], k)
            b == RecordedBy(new_otps["manual"], rec_at["manual"], k)
        IN  (a # Never /\ b # Never) => Apart(a, b)

\* C2: a fingerprint is handed to bot.send_message at most once per window:
\* two calls that carry it carry records of it more than expire_minutes apart.
C2_HandedOverOncePerWindow ==
    \A i, j \in 1..Len(sent) :
        i < j => \A k \in Keys :
                    LET a == RecordedBy(sent[i].new, sent[i].at, k)
                        b == RecordedBy(sent[j].new, sent[j].at, k)
                    IN  (a # Never /\ b # Never) => Apart(a, b)

\* what the successful sends so far carried, summed
RECURSIVE Delivered(_, _)
Delivered(log, n) ==
    IF n = 0 THEN 0
    ELSE Delivered(log, n - 1) + (IF log[n].ok THEN Len(log[n].new) ELSE 0)

\* C21: no update of total_otps_sent is lost: once the cycles in flight have
\* returned, the counter is the sum of what each successful send carried,
\* whichever way the two threads were interleaved.
C21_NoLostUpdate ==
    (\A t \in Triggers : pc[t] = "idle")
        => bot_stats.total_otps_sent = Delivered(sent, Len(sent))

----------------------------------------------------------------------------
(* SpecControl: the routes of the Flask server that are no cycle, next to   *)
(* the cycle of /check-otp.                                                  *)

\* /status: the statistics read, get_cache_stats, and with ?send=true the
\* status message handed to send_telegram_message
BotStatus(send, ok) ==
    /\ phase = "up"
    /\ cache' = _cleanup_expired(cache, now)
    /\ LET s == send_telegram_message(bot_stats, bot, ok)
       IN  IF send
           THEN /\ bot_stats' = s.stats
                /\ last' = [NoCall EXCEPT !.op = "bot_status", !.size = Size(cache'),
                                          !.sends = IF s.called THEN 1 ELSE 0,
                                          !.send_ok = s.ret,
                                          !.status = IF s.ret THEN "success" ELSE "error"]
           ELSE /\ bot_stats' = bot_stats
                /\ last' = [NoCall EXCEPT !.op = "bot_status", !.size = Size(cache')]
    /\ UNCHANGED <<now, disk, writable, phase, bot, scraper, is_logged_in,
                   threadVars, monitors, recorded>>

\* /test-message
TestMessage(ok) ==
    /\ phase = "up"
    /\ LET s == send_telegram_message(bot_stats, bot, ok)
       IN  /\ bot_stats' = s.stats
           /\ last' = [NoCall EXCEPT !.op = "test_message",
                                     !.sends = IF s.called THEN 1 ELSE 0,
                                     !.send_ok = s.ret,
                                     !.status = IF s.ret THEN "success" ELSE "error"]
    /\ UNCHANGED <<now, cache, disk, writable, phase, bot, scraper, is_logged_in,
                   threadVars, monitors, recorded>>

\* /clear-cache
ClearCacheRoute ==
    /\ phase = "up"
    /\ ClearCacheCall

ControlNext ==
    \/ Tick
    \/ \E config_ok, conn_ok, startup_ok \in BOOLEAN : Main(config_ok, conn_ok, startup_ok)
    \/ /\ bot_stats.total_otps_sent < MaxSent
       /\ \E a \in SchedAnswers, send_ok \in BOOLEAN :
             CheckAndSendOtps(a.login_ok, a.fetch_ok, a.page, send_ok) /\ UNCHANGED monitors
    \/ \E a \in SchedAnswers : ManualCheckFault(a.login_ok, a.fetch_ok, a.page)
    \/ \E send, ok \in BOOLEAN : BotStatus(send, ok)
    \/ \E ok \in BOOLEAN : TestMessage(ok)
    \/ ClearCacheRoute

SpecControl == Init /\ [][ControlNext]_vars

\* C22: the routes that are no cycle (/status with or without send,
\* /test-message, /clear-cache) leave every field of bot_stats as it was,
\* whether they answer success or error.
C22_ControlLeavesStats ==
    [][last'.op \in {"bot_status", "test_message", "clear_cache"}
          => bot_stats' = bot_stats]_vars

----------------------------------------------------------------------------
(* Faults inside a pass, under SpecSched *)

\* C23: an exception raised inside check_and_send_otps is caught there: it is
\* stored in last_error and does not reach the caller, be it the monitor
\* thread (which goes on to its sleep) or /check-otp.
C23_FaultCaughtInsideCycle ==
    [][(last'.op = "check_and_send_otps" /\ last'.fault)
          => /\ bot_stats'.last_error = FilterError
             /\ ~last'.raised
             /\ phase' = "up"
             /\ \A i \in DOMAIN monitors :
                   monitors'[i] # monitors[i] => monitors'[i].pc = "sleep"]_vars

\* the pass of /check-otp has failed and been recorded while the monitor
\* thread is between two passes of its own
C23_Witness ==
    /\ last.op = "check_and_send_otps"
    /\ last.fault
    /\ bot_stats.last_error = FilterError
    /\ \E i \in DOMAIN monitors : monitors[i].pc = "test"
    /\ \A i \in DOMAIN monitors : monitors[i].pc # "sleep"

----------------------------------------------------------------------------
(* Liveness of the loop, under SpecSchedFair *)

\* C25: once a thread of background_monitor has been started, either
\* /stop-monitor is served at some time or the threads' passes never end:
\* check_and_send_otps is called again and again, whatever the earlier passes
\* met (a failed fetch, a failed send, an exception caught inside).
C25_PassesNeverEnd ==
    <>(monitors # <<>>)
        => (<>(last.op = "stop_monitor")
            \/ []<><<\E i \in DOMAIN monitors : MonitorPass(i)>>_vars)

\* the loop is at a pass again after one that ended in a failed send or in
\* an exception
C25_Witness ==
    /\ bot_stats.is_running
    /\ bot_stats.last_check # Never
    /\ bot_stats.last_error \in {TelegramError, FilterError}
    /\ \E i \in DOMAIN monitors : monitors[i].pc = "cycle" /\ ~monitors[i].stopped

----------------------------------------------------------------------------
(* The boundary of the window, under SpecCache *)

\* C26: a method of OTPFilter other than clear_cache removes an entry only
\* when its age is strictly more than expire_minutes; an entry whose age is
\* exactly expire_minutes is kept, and is_duplicate returns True for it.
C26_RemovedOnlyBeyondWindow ==
    [][/\ \A k \in DOMAIN cache \ DOMAIN cache' :
            last'.op = "clear_cache" \/ now - cache[k].timestamp > expire_minutes
       /\ \A e \in OtpData :
            LET k == _generate_key(e)
            IN  (/\ last'.op = "is_duplicate"
                 /\ last'.batch = <<e>>
                 /\ k \in DOMAIN cache
                 /\ now - cache[k].timestamp = expire_minutes)
                    => (last'.dup /\ k \in DOMAIN cache')]_vars

\* is_duplicate returned True for an event recorded exactly one window ago
C26_Witness ==
    /\ last.op = "is_duplicate"
    /\ last.dup
    /\ recorded[_generate_key(last.batch[1])] >= 0
    /\ Age(_generate_key(last.batch[1])) = expire_minutes
    /\ cache[_generate_key(last.batch[1])].timestamp = now - expire_minutes

----------------------------------------------------------------------------
(* The file after a write, under SpecCache *)

\* C27: when add_otp or clear_cache returns and its write went through, the
\* file holds the whole of self.cache as it is then, entries recorded by
\* earlier calls included.
C27_FileIsWholeCache ==
    [][(last'.op \in {"add_otp", "clear_cache"} /\ writable) => disk' = cache']_vars

\* add_otp has returned with two entries of different ages in the cache and
\* the same two in the file
C27_Witness ==
    /\ last.op = "add_otp"
    /\ writable
    /\ Size(cache) = 2
    /\ \E k1, k2 \in DOMAIN cache : cache[k1].timestamp < cache[k2].timestamp
    /\ disk = cache

----------------------------------------------------------------------------
(* Across a restart, under SpecStore *)

\* C28: an entry that is in the file when the process starts again, and is
\* not older than the window then, is in the new process's cache with the
\* timestamp it was recorded with: is_duplicate returns True for its event,
\* filter_new_otps does not return the event, and the entry expires when it
\* would have, expire_minutes after that timestamp.
C28_RestartKeepsRecord ==
    [][(last'.op = "import" /\ last'.file = "ok")
          => \A e \in OtpData :
                LET k == _generate_key(e)
                IN  (k \in DOMAIN disk /\ now - disk[k].timestamp <= expire_minutes)
                       => /\ k \in DOMAIN cache'
                          /\ cache'[k].timestamp = disk[k].timestamp
                          /\ is_duplicate(cache', e, now).dup
                          /\ filter_new_otps(cache', disk', <<e>>, now, writable).new = <<>>
                          /\ \A n \in 0..MaxTicks :
                                n * TickMinutes >= now
                                   => (is_duplicate(cache', e, n * TickMinutes).dup
                                          <=> n * TickMinutes - disk[k].timestamp
                                                 <= expire_minutes)]_vars

\* is_duplicate has returned True in a process started after the event was
\* recorded and written
C28_Witness ==
    /\ last.op = "is_duplicate"
    /\ last.dup
    /\ LET k == _generate_key(last.batch[1])
       IN  /\ k \in DOMAIN cache
           /\ k \in DOMAIN disk
           /\ cache[k].timestamp = recorded[k]
           /\ cache[k].timestamp < bot_stats.start_time

----------------------------------------------------------------------------
(* SpecKey: _generate_key and filter_new_otps on pairs of events that differ *)
(* in any of their fields.                                                   *)

\* What _extract_message_from_row can put in a message: an otp of digits
\* (one a prefix of the other), a phone of '+' and digits, a service name
\* (one with the separator of the key in it), the time shown and the text.
KeyOtps == {"1234", "12345"}
KeyPhones == {"+8801711111111", "+8801722222222"}
KeyServices == {"Facebook", "Facebook_Login"}
KeyTimes == {"10:00:00", "10:01:00"}
\* a row read at one time shows one text, read at the other the other
KeyData == {e \in [otp : KeyOtps, phone : KeyPhones, service : KeyServices,
                   timestamp : KeyTimes, raw_message : Raws] :
               e.timestamp = "10:00:00" <=> e.raw_message = "a"}

\* _generate_key on two events
GenerateKeyCall(e1, e2) ==
    /\ last' = [NoCall EXCEPT !.op = "_generate_key", !.batch = <<e1, e2>>,
                              !.keys = <<_generate_key(e1), _generate_key(e2)>>]
    /\ UNCHANGED <<now, cache, disk, writable, cycleVars, threadVars, monitors, recorded>>

\* filter_new_otps on a list of two events
KeyFilterCall(e1, e2) == FilterNewOtpsCall(<<e1, e2>>)

\* every pair is tried on a cache just cleared
KeyNext ==
    \/ cache = EmptyCache /\ \E e1, e2 \in KeyData : GenerateKeyCall(e1, e2)
    \/ cache = EmptyCache /\ \E e1, e2 \in KeyData : KeyFilterCall(e1, e2)
    \/ ClearCacheCall

SpecKey == Init /\ [][KeyNext]_vars

SameTuple(e1, e2) ==
    e1.otp = e2.otp /\ e1.phone = e2.phone /\ e1.service = e2.service

----------------------------------------------------------------------------
(* The age of an entry over the cycles, under SpecCycle *)

\* C30: a cycle that fetches an event whose entry is not older than the
\* window leaves the entry's timestamp as it was and does not find the event
\* new; a cycle that fetches it once the entry is older than the window finds
\* it new, hands it to the send and stamps the entry with the time of that
\* cycle.  So the entry lasts one window from the cycle that recorded it,
\* however often the event was fetched since.
C30_FetchKeepsTimestamp ==
    [][CycleRan
          => \A k \in DOMAIN cache \cap KeysOf(last'.batch) :
                /\ now - cache[k].timestamp <= expire_minutes
                      => /\ k \in DOMAIN cache'
                         /\ cache'[k].timestamp = cache[k].timestamp
                         /\ k \notin KeysOf(last'.new)
                /\ now - cache[k].timestamp > expire_minutes
                      => /\ k \in KeysOf(last'.new)
                         /\ last'.sends = 1
                         /\ cache'[k].timestamp = now]_vars

\* a cycle fetched an event recorded a whole window before and found nothing
\* new: the entry has the timestamp of its record still
C30_Witness ==
    /\ last.op = "check_and_send_otps"
    /\ last.batch # <<>>
    /\ last.new = <<>>
    /\ \E k \in KeysOf(last.batch) :
          /\ k \in DOMAIN cache
          /\ cache[k].timestamp = recorded[k]
          /\ now - cache[k].timestamp = expire_minutes

----------------------------------------------------------------------------
(* The flag is_running and the loops, under SpecSched *)

\* C31: is_running is set from the moment /start-monitor answers 'success',
\* and it is unset only when no thread is about to run the loop: no thread
\* created by a start has yet to reach line 288.
C31_FlagFollowsLoops ==
    /\ (last.op = "start_monitor" /\ last.status = "success") => bot_stats.is_running
    /\ ~bot_stats.is_running => \A i \in DOMAIN monitors : monitors[i].pc # "started"

----------------------------------------------------------------------------
(* last_error over the steps, under SpecSched *)

\* C32: no step resets last_error: once it holds an error, every later step,
\* a cycle that fetched, delivered and counted included, leaves an error in
\* it (the same one or a newer one).
C32_LastErrorNeverReset ==
    [][bot_stats.last_error # None => bot_stats'.last_error # None]_vars

\* a cycle delivered and counted, and last_error still holds the error of an
\* earlier failure
C32_Witness ==
    /\ last.op = "check_and_send_otps"
    /\ last.send_ok
    /\ bot_stats.total_otps_sent > 0
    /\ bot_stats.last_error \in {TelegramError, FilterError}

----------------------------------------------------------------------------
(* The answer of the manual trigger, under SpecControl *)

\* manual_check (and check_command alike): the 'status' of the response after
\* check_and_send_otps, which returns None, or raised
manual_check(raised) == IF raised THEN "error" ELSE "success"

\* the cycle that just ran met a failure: of the login or the fetch, of the
\* send, or an exception of its own
CycleFailed(call) ==
    \/ call.fetch \in {"login_failed", "exception"}
    \/ call.sends > 0 /\ ~call.send_ok
    \/ call.fault

\* C33: /check-otp answers 'error' when the cycle it ran met a failure (of the
\* fetch, of the send, or an exception inside), and 'success' only when the
\* cycle met none.
C33_ManualCheckReportsOutcome ==
    [][last'.op = "check_and_send_otps"
          => (manual_check(last'.raised) = "error" <=> CycleFailed(last'))]_vars

=============================================================================
